---- MODULE Spec2Model ----
(***************************************************************************)
(* Travecto web client (static/script.js): form persistence, share links,  *)
(* plan requests and the list/map view state.                              *)
(*                                                                         *)
(* Text is a sequence of one-character strings.  A JavaScript value that   *)
(* may be null/undefined is a sequence of length 0 (absent) or 1 (present).*)
(***************************************************************************)
EXTENDS Integers, Sequences, FiniteSets, TLC

VARIABLES
    variant,      \* which script is deployed: "gated" (lines 1-204) or "plain" (lines 205-334)
    pc,           \* "loading": document parsed, script not yet run; "ready": script has run
    location,     \* window.location: [pathname, search, hash]
    field,        \* live values of the six form fields
    storage,      \* localStorage: key -> absent or present text
    dark,         \* document.body carries the class 'dark'
    hidden,       \* the class 'hidden' of #list, #map and #day
    lastPlan,     \* the global lastPlan: absent or a PlanResponse
    dayOptions,   \* the <option>s of #day: sequence of [value, label]
    dayValue,     \* #day.value: absent (no option selected) or a route index
    listHTML,     \* content of #list: sequence of rendered route blocks
    mapSrc,       \* #mapFrame.src
    inflight,     \* plan() calls suspended at `await fetch`: set of [id, payload]; a later call has
                  \* the greater id
    alertMsg,     \* text of the most recent alert(), absent if none on this page
    uncaught,     \* the most recent handler ended by an uncaught exception
    clipboard,    \* absent or the URL written by share()
    lastOp,       \* the handler that ran last: [op, arg]
    atLoad,       \* location and storage when the current page started loading
    lastEdit,     \* per field: the value of its last edit not since replaced by a URL parameter
    shared,       \* absent or the field values read by the last share()
    planFrom,     \* absent or the plan() call whose response lastPlan holds: [id, resp, late]
    steps         \* number of handlers run so far

vars == <<variant, pc, location, field, storage, dark, hidden, lastPlan, dayOptions,
          dayValue, listHTML, mapSrc, inflight, alertMsg, uncaught, clipboard, lastOp,
          atLoad, lastEdit, shared, planFrom, steps>>

----------------------------------------------------------------------------
(* Optional values *)

None == <<>>
Some(v) == <<v>>

----------------------------------------------------------------------------
(* JavaScript string primitives used by the script *)

Whitespace == {" ", "\n", "\r", "\t"}

RECURSIVE TrimStart(_)
TrimStart(s) ==
    IF s # <<>> /\ Head(s) \in Whitespace THEN TrimStart(Tail(s)) ELSE s

RECURSIVE TrimEnd(_)
TrimEnd(s) ==
    IF s # <<>> /\ s[Len(s)] \in Whitespace THEN TrimEnd(SubSeq(s, 1, Len(s) - 1)) ELSE s

\* String.prototype.trim
Trim(s) == TrimEnd(TrimStart(s))

\* String.prototype.split(sep) for a one-character separator and no limit:
\* every occurrence of sep separates two segments
Split(s, sep) ==
    LET at == {i \in 1..Len(s) : s[i] = sep}
        nth(k) == CHOOSE i \in at : Cardinality({j \in at : j < i}) = k - 1
        from(k) == IF k = 1 THEN 1 ELSE nth(k - 1) + 1
        to(k) == IF k = Cardinality(at) + 1 THEN Len(s) ELSE nth(k) - 1
    IN [k \in 1..(Cardinality(at) + 1) |-> SubSeq(s, from(k), to(k))]

RECURSIVE Flatten(_)
\* the texts of a list, one after the other
Flatten(texts) ==
    IF texts = <<>> THEN <<>>
    ELSE IF Len(texts) = 1 THEN texts[1]
    ELSE Flatten(SubSeq(texts, 1, Len(texts) \div 2))
         \o Flatten(SubSeq(texts, Len(texts) \div 2 + 1, Len(texts)))

\* Array.prototype.join(sep)
Join(segs, sep) ==
    Flatten([i \in 1..Len(segs) |-> IF i = 1 THEN segs[i] ELSE <<sep>> \o segs[i]])

DropCR(s) == IF s # <<>> /\ s[Len(s)] = "\r" THEN SubSeq(s, 1, Len(s) - 1) ELSE s

\* split(/\r?\n/): a "\n" ends a segment, and takes one "\r" directly before it along
SplitLines(s) ==
    LET segs == Split(s, "\n")
    IN [i \in 1..Len(segs) |-> IF i < Len(segs) THEN DropCR(segs[i]) ELSE segs[i]]

\* .split(/\r?\n/).map(line => line.trim()).filter(Boolean)
Lines(s) ==
    LET trimmed == [i \in 1..Len(SplitLines(s)) |-> Trim(SplitLines(s)[i])]
    IN SelectSeq(trimmed, LAMBDA line : line # <<>>)

----------------------------------------------------------------------------
(* plan(): parsing of the free-text fields *)

RECURSIVE PushPlaces_Overwrite(_, _, _)
\* PushPlaces with the list under the day replaced instead of extended
PushPlaces_Overwrite(m, day, tokens) ==
    IF tokens = <<>> THEN m
    ELSE LET place == Trim(Head(tokens))
             m1 == IF place = <<>> THEN m
                   ELSE IF day \in DOMAIN m
                        THEN [m EXCEPT ![day] = <<place>>]
                        ELSE m @@ (day :> <<place>>)
         IN PushPlaces_Overwrite(m1, day, Tail(tokens))

RECURSIVE PushPlaces(_, _, _)
\* places.split(',').forEach(place => { place = place.trim();
\*                                      if (place) (mandatory[day] ??= []).push(place) })
PushPlaces(m, day, tokens) ==
    IF tokens = <<>> THEN m
    ELSE LET place == Trim(Head(tokens))
             m1 == IF place = <<>> THEN m
                   ELSE IF day \in DOMAIN m
                        THEN [m EXCEPT ![day] = Append(@, place)]
                        ELSE m @@ (day :> <<place>>)
         IN PushPlaces(m1, day, Tail(tokens))

\* const [day, places] = mandatoryLine.split('|'): the first two segments
MandatoryDay(line) == Split(line, "|")[1]

\* MandatoryPlaces with everything after the first '|' kept
MandatoryPlaces_Rest(line) ==
    LET segs == Split(line, "|")
    IN IF Len(segs) >= 2 THEN Some(Join(Tail(segs), "|")) ELSE None

MandatoryPlaces(line) ==
    LET segs == Split(line, "|") IN IF Len(segs) >= 2 THEN Some(segs[2]) ELSE None

\* MandatoryLine with only the test of `places`: a line with an empty day is kept
MandatoryLine_KeepEmptyDay(m, line) ==
    LET day == MandatoryDay(line)
        places == MandatoryPlaces(line)
    IN IF places = None \/ places = Some(<<>>) THEN m
       ELSE PushPlaces(m, day, Split(places[1], ","))

\* the body of mandatoryLines.forEach
MandatoryLine(m, line) ==
    LET day == MandatoryDay(line)
        places == MandatoryPlaces(line)
    IN IF day = <<>> \/ places = None \/ places = Some(<<>>) THEN m
       ELSE PushPlaces(m, day, Split(places[1], ","))

RECURSIVE MandatoryFold(_, _)
MandatoryFold(m, lines) ==
    IF lines = <<>> THEN m ELSE MandatoryFold(MandatoryLine(m, Head(lines)), Tail(lines))

\* the object `mandatory` built from the text of #mandatory
ParseMandatory(text) == MandatoryFold(<<>>, Lines(text))

\* AltLine with a key that is already registered left as it is
AltLine_FirstWins(m, line) ==
    LET segs == Split(line, "|")
        original == segs[1]
        replacement == Trim(Join(Tail(segs), "|"))
    IN IF original = <<>> \/ Trim(original) \in DOMAIN m THEN m
       ELSE m @@ (Trim(original) :> replacement)

\* the body of altAdressesLines.forEach
AltLine(m, line) ==
    LET segs == Split(line, "|")
        original == segs[1]
        replacement == Trim(Join(Tail(segs), "|"))
    IN IF original = <<>> THEN m
       ELSE IF Trim(original) \in DOMAIN m
            THEN [m EXCEPT ![Trim(original)] = replacement]
            ELSE m @@ (Trim(original) :> replacement)

RECURSIVE AltFold(_, _)
AltFold(m, lines) ==
    IF lines = <<>> THEN m ELSE AltFold(AltLine(m, Head(lines)), Tail(lines))

\* the object `altAddresses` built from the text of #altAddresses
ParseAltAddresses(text) == AltFold(<<>>, Lines(text))

\* the request body of POST /plan
Payload(f) ==
    [city_name |-> "custom",
     config |-> [home |-> IF Trim(f.home) = <<>> THEN None ELSE Some(Trim(f.home)),
                 places |-> Lines(f.places),
                 mandatory_by_day |-> ParseMandatory(f.mandatory),
                 alt_addresses |-> ParseAltAddresses(f.altAddresses),
                 mode |-> f.mode]]

----------------------------------------------------------------------------
(* URLSearchParams: application/x-www-form-urlencoded *)

\* characters that the serializer percent-encodes, with their byte in hex;
\* the space is written "+", letters and digits are written as they are
Escaped == {"\n", "\r", "\t", "#", "%", "&", "+", ",", "=", "?", "|"}

PctCodes ==
    { <<"\t", <<"0", "9">> >>, <<"\n", <<"0", "A">> >>, <<"\r", <<"0", "D">> >>,
      <<" ", <<"2", "0">> >>,  <<"#", <<"2", "3">> >>,  <<"%", <<"2", "5">> >>,
      <<"&", <<"2", "6">> >>,  <<"+", <<"2", "B">> >>,  <<",", <<"2", "C">> >>,
      <<"=", <<"3", "D">> >>,  <<"?", <<"3", "F">> >>,  <<"|", <<"7", "C">> >>,
      <<"1", <<"3", "1">> >>,  <<"2", <<"3", "2">> >>,  <<"A", <<"4", "1">> >>,
      <<"B", <<"4", "2">> >>,  <<"a", <<"6", "1">> >>,  <<"b", <<"6", "2">> >> }

PctOf(c) == (CHOOSE p \in PctCodes : p[1] = c)[2]

\* EncodeChar with the "+" left as it is
EncodeChar_PlusKept(c) ==
    IF c = " " THEN <<"+">>
    ELSE IF c \in Escaped \ {"+"} THEN <<"%">> \o PctOf(c)
    ELSE <<c>>

EncodeChar(c) ==
    IF c = " " THEN <<"+">>
    ELSE IF c \in Escaped THEN <<"%">> \o PctOf(c)
    ELSE <<c>>

\* the serializer applied to a name or a value
Encode(s) == Flatten([i \in 1..Len(s) |-> EncodeChar(s[i])])

\* the text after a "%": a byte in hex gives its character, anything else keeps the "%"
DecodePct(seg) ==
    IF Len(seg) >= 2 /\ \E p \in PctCodes : p[2] = <<seg[1], seg[2]>>
    THEN <<(CHOOSE p \in PctCodes : p[2] = <<seg[1], seg[2]>>)[1]>> \o SubSeq(seg, 3, Len(seg))
    ELSE <<"%">> \o seg

\* the parser applied to a name or a value: every "+" becomes a space, then every
\* %XX becomes the byte XX
Decode(s) ==
    LET spaced == [i \in 1..Len(s) |-> IF s[i] = "+" THEN " " ELSE s[i]]
        segs == Split(spaced, "%")
    IN Flatten([k \in 1..Len(segs) |-> IF k = 1 THEN segs[k] ELSE DecodePct(segs[k])])

RECURSIVE IndexOf(_, _, _)
\* position of the first c in s at or after i, 0 when there is none
IndexOf(s, c, i) ==
    IF i > Len(s) THEN 0 ELSE IF s[i] = c THEN i ELSE IndexOf(s, c, i + 1)

\* one name=value piece of a query string, split at its first "="
ParsePair(piece) ==
    LET eq == IndexOf(piece, "=", 1)
    IN IF eq = 0 THEN <<Decode(piece), <<>> >>
       ELSE <<Decode(SubSeq(piece, 1, eq - 1)), Decode(SubSeq(piece, eq + 1, Len(piece)))>>

\* new URLSearchParams(search): the list of (name, value) pairs
ParseQuery(search) ==
    LET pieces == SelectSeq(Split(search, "&"), LAMBDA piece : piece # <<>>)
    IN [i \in 1..Len(pieces) |-> ParsePair(pieces[i])]

\* URLSearchParams.prototype.get: the first value under the name, or null
ParamsGet(params, name) ==
    LET hits == SelectSeq(params, LAMBDA pair : pair[1] = name)
    IN IF hits = <<>> THEN None ELSE Some(hits[1][2])

\* URLSearchParams.prototype.set: the first pair under the name takes the value and
\* the others under it go; a new name is appended
ParamsSet(params, name, value) ==
    LET first == CHOOSE i \in 1..Len(params) :
                     /\ params[i][1] = name
                     /\ \A j \in 1..(i - 1) : params[j][1] # name
        kept == [i \in 1..Len(params) |->
                     IF i = first THEN Some(<<name, value>>)
                     ELSE IF params[i][1] = name THEN None
                     ELSE Some(params[i])]
        flat == SelectSeq(kept, LAMBDA item : item # None)
    IN IF \A i \in 1..Len(params) : params[i][1] # name
       THEN Append(params, <<name, value>>)
       ELSE [i \in 1..Len(flat) |-> flat[i][1]]

\* URLSearchParams.prototype.toString
Serialize(params) ==
    Join([i \in 1..Len(params) |-> Encode(params[i][1]) \o <<"=">> \o Encode(params[i][2])],
         "&")

----------------------------------------------------------------------------
(* The document *)

FieldIds == <<"home", "places", "mandatory", "altAddresses", "mode", "view">>
FieldSet == {FieldIds[i] : i \in 1..Len(FieldIds)}
TextIds == {"home", "places", "mandatory", "altAddresses"}
StorageKeys == FieldSet \cup {"theme"}

\* the query-parameter name of a field
KeyText ==
    [home |-> <<"h", "o", "m", "e">>,
     places |-> <<"p", "l", "a", "c", "e", "s">>,
     mandatory |-> <<"m", "a", "n", "d", "a", "t", "o", "r", "y">>,
     altAddresses |-> <<"a", "l", "t", "A", "d", "d", "r", "e", "s", "s", "e", "s">>,
     mode |-> <<"m", "o", "d", "e">>,
     view |-> <<"v", "i", "e", "w">>]

ViewList == <<"l", "i", "s", "t">>
ViewMap == <<"m", "a", "p">>
ViewOptions == {ViewList, ViewMap}
ModeCar == <<"c", "a", "r">>
ModeWalk == <<"w", "a", "l", "k">>
ModeOptions == {ModeCar, ModeWalk}
ThemeDark == <<"d", "a", "r", "k">>
ThemeLight == <<"l", "i", "g", "h", "t">>

\* the form as the markup gives it: empty text fields, first option of each select
MarkupFields ==
    [home |-> <<>>, places |-> <<>>, mandatory |-> <<>>, altAddresses |-> <<>>,
     mode |-> ModeCar, view |-> ViewList]

\* the regions as the markup gives them: the list shown, the map and the day selector not
MarkupHidden == [list |-> FALSE, map |-> TRUE, day |-> TRUE]

----------------------------------------------------------------------------
(* Rendering *)

\* the heading of a route: `info.day ? `Day ${info.day}` : 'Route'`
Label(info) ==
    IF info.day # None /\ info.day[1] # 0 THEN "Day " \o ToString(info.day[1]) ELSE "Route"

\* populateDays(resp): one option per route, value = index
PopulateDays(resp) ==
    [i \in 1..Len(resp.routes) |-> [value |-> i - 1, label |-> Label(resp.routes[i])]]

\* KmTenths with the digits after the first decimal cut off
KmTenths_Truncated(distance_m) == distance_m \div 100

\* (info.distance_m / 1000).toFixed(1), as a number of tenths of a kilometre: the nearest
\* tenth.  For a distance half-way between two tenths toFixed goes by the binary value
\* of the quotient; no route of Responses has such a distance.
KmTenths(distance_m) == (distance_m + 50) \div 100

\* renderList(resp): #list cleared, then one block per route
RenderList(resp) ==
    [i \in 1..Len(resp.routes) |->
        [heading |-> Label(resp.routes[i]),
         places |-> resp.routes[i].places,
         kmTenths |-> KmTenths(resp.routes[i].distance_m),
         minutes |-> resp.routes[i].time_minutes]]

TypeErrorText == "Cannot read properties of undefined"

\* showMap(idx): [src, threw]; lastPlan.routes[idx] is undefined for an idx that is
\* no index of routes, and reading .map_path of it throws
ShowMap(plan, idx, src) ==
    IF plan = None \/ idx = None THEN [src |-> src, threw |-> TRUE]
    ELSE IF idx[1] + 1 \in 1..Len(plan[1].routes)
         THEN [src |-> plan[1].routes[idx[1] + 1].map_path, threw |-> FALSE]
         ELSE [src |-> src, threw |-> TRUE]

\* HasDays true of every plan that has a route
HasDays_AnyRoute(plan) == plan[1].routes # <<>>

\* lastPlan.routes.some(route => route.day != null)
HasDays(plan) == \E i \in 1..Len(plan[1].routes) : plan[1].routes[i].day # None

ViewResult(hid, list, src, threw) ==
    [hidden |-> hid, listHTML |-> list, mapSrc |-> src, threw |-> threw]

\* updateView() of lines 36-50: `mandatory` is computed from lastPlan.routes before the
\* test of lastPlan, so with lastPlan null the call throws before it touches a class
UpdateViewGated(view, plan, dval, hid, list, src) ==
    IF plan = None THEN ViewResult(hid, list, src, TRUE)
    ELSE LET mandatory == HasDays(plan)
             hid1 == [list |-> view # ViewList, map |-> view # ViewMap,
                      day |-> ~(view = ViewMap /\ mandatory)]
             shown == ShowMap(plan, IF mandatory THEN dval ELSE Some(0), src)
         IN IF view = ViewList
            THEN ViewResult(hid1, RenderList(plan[1]), src, FALSE)
            ELSE ViewResult(hid1, list, shown.src, shown.threw)

\* updateView() of lines 240-253
UpdateViewPlain(view, plan, dval, hid, list, src) ==
    LET hid1 == [list |-> view # ViewList, map |-> view # ViewMap, day |-> view # ViewMap]
        shown == ShowMap(plan, dval, src)
    IN IF plan = None THEN ViewResult(hid1, list, src, FALSE)
       ELSE IF view = ViewList
            THEN ViewResult(hid1, RenderList(plan[1]), src, FALSE)
            ELSE ViewResult(hid1, list, shown.src, shown.threw)

UpdateView(v, view, plan, dval, hid, list, src) ==
    IF v = "gated" THEN UpdateViewGated(view, plan, dval, hid, list, src)
    ELSE UpdateViewPlain(view, plan, dval, hid, list, src)

----------------------------------------------------------------------------
(* Inputs *)

\* longest run of handlers explored from a page load
MaxSteps == 5
\* most plan() calls awaiting their response at once
MaxInflight == 2
\* most routes in a PlanResponse
MaxRoutes == 2

\* what the user types into a text field, or picks in a select
EditValues(id) ==
    CASE id = "home" -> {<<>>, <<" ", "a">>}
      [] id = "places" -> {<<>>, <<"A", "\n", "B">>}
      [] id = "mandatory" -> {<<>>, <<"1", "|", "A">>}
      [] id = "altAddresses" -> {<<>>, <<"A", "|", "B">>}
      [] id = "mode" -> ModeOptions
      [] id = "view" -> ViewOptions

Url(search, hash) == [pathname |-> <<"/">>, search |-> search, hash |-> hash]

\* a query string carrying the given (field, value) pairs
QueryOf(pairs) == Serialize([i \in 1..Len(pairs) |-> <<KeyText[pairs[i][1]], pairs[i][2]>>])

\* addresses the user opens
NavUrls ==
    { Url(<<>>, <<>>),
      Url(QueryOf(<< <<"home", <<"b">> >> >>), <<"#", "x">>),
      Url(QueryOf(<< <<"view", ViewMap>>, <<"mode", ModeWalk>> >>), <<>>) }

NoStorage == [k \in StorageKeys |-> None]

\* what the browser may hold from earlier sessions when the page is first opened
InitStorages ==
    { NoStorage,
      [NoStorage EXCEPT !.home = Some(<<"a">>), !.view = Some(ViewMap),
                        !.theme = Some(ThemeDark)] }

\* a route of a PlanResponse at position i (from 0), with a day number or without
Route(i, withDay) ==
    [day |-> IF withDay THEN Some(i + 1) ELSE None,
     places |-> <<"Louvre", "Orsay">>,
     distance_m |-> 12345 + 36 * i,
     time_minutes |-> 90 + i,
     map_path |-> "/maps/" \o ToString(i)]

Seqs(S, n) == UNION {[1..k -> S] : k \in 0..n}

\* the decodable responses of the endpoint
Responses ==
    { [routes |-> [i \in 1..Len(days) |-> Route(i - 1, days[i])]] :
        days \in Seqs(BOOLEAN, MaxRoutes) }

\* the failures of the call: a non-success status with its body, or no response
Failures ==
    { [kind |-> "status", message |-> "bad address"],
      [kind |-> "network", message |-> "Failed to fetch"] }

----------------------------------------------------------------------------
(* Page load *)

Op(name, arg) == [op |-> name, arg |-> arg]

\* a freshly parsed document at the address url; storage and clipboard outlive the page
Page(url) ==
    /\ pc' = "loading"
    /\ location' = url
    /\ field' = MarkupFields
    /\ dark' = FALSE
    /\ hidden' = MarkupHidden
    /\ lastPlan' = None
    /\ dayOptions' = <<>>
    /\ dayValue' = None
    /\ listHTML' = <<>>
    /\ mapSrc' = ""
    /\ inflight' = {}
    /\ alertMsg' = None
    /\ uncaught' = FALSE
    /\ atLoad' = [location |-> url, storage |-> storage]
    /\ lastOp' = Op("navigate", "")
    /\ planFrom' = None
    /\ UNCHANGED <<variant, storage, clipboard, lastEdit, shared>>

Init ==
    /\ variant \in {"gated", "plain"}
    /\ pc = "loading"
    /\ location \in NavUrls
    /\ field = MarkupFields
    /\ storage \in InitStorages
    /\ dark = FALSE
    /\ hidden = MarkupHidden
    /\ lastPlan = None
    /\ dayOptions = <<>>
    /\ dayValue = None
    /\ listHTML = <<>>
    /\ mapSrc = ""
    /\ inflight = {}
    /\ alertMsg = None
    /\ uncaught = FALSE
    /\ clipboard = None
    /\ lastOp = Op("navigate", "")
    /\ atLoad = [location |-> location, storage |-> storage]
    /\ lastEdit = [id \in FieldSet |-> None]
    /\ shared = None
    /\ planFrom = None
    /\ steps = 0

\* SetValue with the stored value taken before the URL parameter
SetValue_StorageFirst(id, params, stored, current) ==
    LET value == ParamsGet(params, KeyText[id])
    IN IF stored # None
       THEN [value |-> stored[1], stored |-> stored, had |-> FALSE]
       ELSE IF value # None
            THEN [value |-> value[1], stored |-> value, had |-> TRUE]
            ELSE [value |-> current, stored |-> stored, had |-> FALSE]

\* setValue(id): [value, stored, had]
SetValue(id, params, stored, current) ==
    LET value == ParamsGet(params, KeyText[id])
    IN IF value # None
       THEN [value |-> value[1], stored |-> value, had |-> TRUE]
       ELSE IF stored # None
            THEN [value |-> stored[1], stored |-> stored, had |-> FALSE]
            ELSE [value |-> current, stored |-> stored, had |-> FALSE]

\* history.replaceState(null, '', pathname + hash)
StripQuery(loc) == [pathname |-> loc.pathname, search |-> <<>>, hash |-> loc.hash]

\* ThemeAtLoad with every stored value but 'light' taken for dark
ThemeAtLoad_UnlessLight(stored) == stored # Some(ThemeLight)

\* whether restoreForm puts the class 'dark' on the body: theme === 'dark'
ThemeAtLoad(stored) == stored = Some(ThemeDark)

\* restoreForm(), run once when the script of lines 1-204 loads
RestoreForm ==
    /\ pc = "loading"
    /\ variant = "gated"
    /\ \E params \in {ParseQuery(location.search)} :
       \E set \in {[id \in FieldSet |-> SetValue(id, params, storage[id], field[id])]} :
       LET hadParams == \E id \in FieldSet : set[id].had
           view == UpdateView(variant, set["view"].value, lastPlan, dayValue,
                              hidden, listHTML, mapSrc)
       IN /\ field' = [id \in FieldSet |-> set[id].value]
          /\ storage' = [k \in StorageKeys |->
                            IF k \in FieldSet THEN set[k].stored ELSE storage[k]]
          /\ lastEdit' = [id \in FieldSet |-> IF set[id].had THEN None ELSE lastEdit[id]]
          /\ dark' = ThemeAtLoad(storage["theme"])
          /\ hidden' = view.hidden
          /\ listHTML' = view.listHTML
          /\ mapSrc' = view.mapSrc
          /\ uncaught' = view.threw
          /\ location' = IF ~view.threw /\ hadParams THEN StripQuery(location) ELSE location
    /\ pc' = "ready"
    /\ lastOp' = Op("restoreForm", "")
    /\ UNCHANGED <<variant, lastPlan, dayOptions, dayValue, inflight, alertMsg, clipboard,
                   atLoad, shared, planFrom>>

\* the script of lines 205-334 only registers its listeners when it loads
LoadPlain ==
    /\ pc = "loading"
    /\ variant = "plain"
    /\ pc' = "ready"
    /\ lastOp' = Op("load", "")
    /\ UNCHANGED <<variant, location, field, storage, dark, hidden, lastPlan, dayOptions,
                   dayValue, listHTML, mapSrc, inflight, alertMsg, uncaught, clipboard,
                   atLoad, lastEdit, shared, planFrom>>

\* the user opens one of the addresses
Navigate ==
    /\ pc = "ready"
    /\ \E url \in NavUrls : Page(url)

\* the user reloads the page
Reload ==
    /\ pc = "ready"
    /\ Page(location)

\* the user opens the address that share() put on the clipboard
NavigateShared ==
    /\ pc = "ready"
    /\ clipboard # None
    /\ Page(clipboard[1])

----------------------------------------------------------------------------
(* Event handlers *)

\* StoreOnEdit without the storage listener of #view
StoreOnEdit_SkipView(v, id, value, stor) ==
    IF v = "gated" /\ id # "view" THEN [stor EXCEPT ![id] = Some(value)] ELSE stor

\* the storage listeners of lines 61-69: localStorage.setItem(id, event.target.value);
\* the script of lines 205-334 registers none
StoreOnEdit(v, id, value, stor) ==
    IF v = "gated" THEN [stor EXCEPT ![id] = Some(value)] ELSE stor

\* 'input' on a text field or 'change' on #mode
Edit ==
    /\ pc = "ready"
    /\ \E id \in TextIds \cup {"mode"} : \E value \in EditValues(id) \ {field[id]} :
          /\ field' = [field EXCEPT ![id] = value]
          /\ storage' = StoreOnEdit(variant, id, value, storage)
          /\ lastEdit' = [lastEdit EXCEPT ![id] = Some(value)]
          /\ lastOp' = Op("edit", id)
    /\ uncaught' = FALSE
    /\ UNCHANGED <<variant, pc, location, dark, hidden, lastPlan, dayOptions, dayValue,
                   listHTML, mapSrc, inflight, alertMsg, clipboard, atLoad, shared,
                   planFrom>>

\* 'change' on #view: the listener updateView, then the storage listener; an exception
\* in one listener does not keep the next from running
ViewChange ==
    /\ pc = "ready"
    /\ \E value \in ViewOptions \ {field["view"]} :
          LET view == UpdateView(variant, value, lastPlan, dayValue, hidden, listHTML, mapSrc)
          IN /\ field' = [field EXCEPT !["view"] = value]
             /\ hidden' = view.hidden
             /\ listHTML' = view.listHTML
             /\ mapSrc' = view.mapSrc
             /\ uncaught' = view.threw
             /\ storage' = StoreOnEdit(variant, "view", value, storage)
             /\ lastEdit' = [lastEdit EXCEPT !["view"] = Some(value)]
    /\ lastOp' = Op("viewChange", "")
    /\ UNCHANGED <<variant, pc, location, dark, lastPlan, dayOptions, dayValue, inflight,
                   alertMsg, clipboard, atLoad, shared, planFrom>>

\* 'change' on #day: the user picks another option of the shown selector
DayChange ==
    /\ pc = "ready"
    /\ ~hidden.day
    /\ \E i \in 1..Len(dayOptions) :
          LET idx == Some(dayOptions[i].value)
              shown == ShowMap(lastPlan, idx, mapSrc)
          IN /\ idx # dayValue
             /\ dayValue' = idx
             /\ mapSrc' = shown.src
             /\ uncaught' = shown.threw
    /\ lastOp' = Op("dayChange", "")
    /\ UNCHANGED <<variant, pc, location, field, storage, dark, hidden, lastPlan, dayOptions,
                   listHTML, inflight, alertMsg, clipboard, atLoad, lastEdit, shared,
                   planFrom>>

\* click on the heading: classList.toggle('dark'), then the new theme is stored
ToggleTheme ==
    /\ pc = "ready"
    /\ variant = "gated"
    /\ dark' = ~dark
    /\ storage' = [storage EXCEPT !["theme"] = Some(IF ~dark THEN ThemeDark ELSE ThemeLight)]
    /\ uncaught' = FALSE
    /\ lastOp' = Op("theme", "")
    /\ UNCHANGED <<variant, pc, location, field, hidden, lastPlan, dayOptions, dayValue,
                   listHTML, mapSrc, inflight, alertMsg, clipboard, atLoad, lastEdit, shared,
                   planFrom>>

\* the value share() puts under each field's name
SharedValue(id, f) == IF id = "home" THEN Trim(f[id]) ELSE f[id]

RECURSIVE SetAll(_, _, _)
SetAll(params, ids, f) ==
    IF ids = <<>> THEN params
    ELSE SetAll(ParamsSet(params, KeyText[Head(ids)], SharedValue(Head(ids), f)), Tail(ids), f)

\* the URL share() builds from the current address and the live fields
ShareUrl(loc, f) ==
    [pathname |-> loc.pathname,
     search |-> Serialize(SetAll(ParseQuery(loc.search), FieldIds, f)),
     hash |-> loc.hash]

\* click on #share
Share ==
    /\ pc = "ready"
    /\ variant = "gated"
    /\ clipboard' = Some(ShareUrl(location, field))
    /\ shared' = Some(field)
    /\ uncaught' = FALSE
    /\ lastOp' = Op("share", "")
    /\ UNCHANGED <<variant, pc, location, field, storage, dark, hidden, lastPlan, dayOptions,
                   dayValue, listHTML, mapSrc, inflight, alertMsg, atLoad, lastEdit,
                   planFrom>>

\* the number of a new plan() call: greater than the number of every call still awaiting
\* its response and of the call that lastPlan came from
NextId ==
    LET ids == {r.id : r \in inflight} \cup {planFrom[i].id : i \in 1..Len(planFrom)} \cup {0}
    IN 1 + CHOOSE i \in ids : \A j \in ids : j <= i

\* PlanFields with the trimmed home written back to #home
PlanFields_HomeTrimmed(f) == [f EXCEPT !["home"] = Trim(@)]

\* the form fields after plan() has read them: it reads .value and assigns none
PlanFields(f) == f

\* ClearedRegions with the map left as it was
ClearedRegions_MapKept(list, src) == [listHTML |-> <<>>, mapSrc |-> src]

\* #list and #mapFrame after the first two statements of plan()
ClearedRegions(list, src) == [listHTML |-> <<>>, mapSrc |-> ""]

\* click on #plan: plan() up to `await fetch(...)`
PlanClick ==
    /\ pc = "ready"
    /\ Cardinality(inflight) < MaxInflight
    /\ field' = PlanFields(field)
    /\ listHTML' = ClearedRegions(listHTML, mapSrc).listHTML
    /\ mapSrc' = ClearedRegions(listHTML, mapSrc).mapSrc
    /\ inflight' = inflight \cup {[id |-> NextId, payload |-> Payload(field)]}
    /\ uncaught' = FALSE
    /\ lastOp' = Op("planClick", "")
    /\ UNCHANGED <<variant, pc, location, storage, dark, hidden, lastPlan, dayOptions,
                   dayValue, alertMsg, clipboard, atLoad, lastEdit, shared, planFrom>>

AlertText(message) == "Planning failed: " \o message

\* PlanAfterFailure with lastPlan cleared
PlanAfterFailure_Cleared(plan) == None

\* what plan() leaves in lastPlan when the call fails
PlanAfterFailure(plan) == plan

\* PlanAfterSuccess with the routes of the response added to those of the plan held
PlanAfterSuccess_Merged(plan, resp) ==
    IF plan = None THEN Some(resp) ELSE Some([routes |-> plan[1].routes \o resp.routes])

\* lastPlan = await resp.json()
PlanAfterSuccess(plan, resp) == Some(resp)

\* plan() resumed by a response with a success status and a PlanResponse body:
\* lines 169-173, and the catch of line 177 if updateView throws
PlanSucceed ==
    /\ pc = "ready"
    /\ \E req \in inflight : \E resp \in Responses :
          LET dval == IF resp.routes = <<>> THEN None ELSE Some(0)
              view == UpdateView(variant, field["view"], Some(resp), dval,
                                 hidden, listHTML, mapSrc)
          IN /\ inflight' = inflight \ {req}
             /\ lastPlan' = PlanAfterSuccess(lastPlan, resp)
             /\ planFrom' = Some([id |-> req.id, resp |-> resp,
                                  late |-> planFrom # None /\ planFrom[1].id > req.id])
             /\ dayOptions' = PopulateDays(resp)
             /\ dayValue' = dval
             /\ hidden' = view.hidden
             /\ listHTML' = view.listHTML
             /\ mapSrc' = view.mapSrc
             /\ alertMsg' = IF view.threw THEN Some(AlertText(TypeErrorText)) ELSE alertMsg
             /\ lastOp' = Op(IF view.threw THEN "planThrew" ELSE "planOk", "")
    /\ uncaught' = FALSE
    /\ UNCHANGED <<variant, pc, location, field, storage, dark, clipboard, atLoad,
                   lastEdit, shared>>

\* plan() resumed by a failure: fetch rejects, or the status is not a success and
\* the body becomes the message of the thrown Error; line 177 alerts it
PlanFail ==
    /\ pc = "ready"
    /\ \E req \in inflight : \E failure \in Failures :
          /\ inflight' = inflight \ {req}
          /\ alertMsg' = Some(AlertText(failure.message))
          /\ lastOp' = Op("planFail", failure.message)
    /\ lastPlan' = PlanAfterFailure(lastPlan)
    /\ uncaught' = FALSE
    /\ UNCHANGED <<variant, pc, location, field, storage, dark, hidden, dayOptions,
                   dayValue, listHTML, mapSrc, clipboard, atLoad, lastEdit, shared,
                   planFrom>>

----------------------------------------------------------------------------
(* Specifications *)

Step(A) == steps < MaxSteps /\ steps' = steps + 1 /\ A

Next ==
    \/ Step(RestoreForm)
    \/ Step(LoadPlain)
    \/ Step(Navigate)
    \/ Step(Reload)
    \/ Step(NavigateShared)
    \/ Step(Edit)
    \/ Step(ViewChange)
    \/ Step(DayChange)
    \/ Step(ToggleTheme)
    \/ Step(Share)
    \/ Step(PlanClick)
    \/ Step(PlanSucceed)
    \/ Step(PlanFail)

\* every handler, from a first page load, up to MaxSteps handlers
Spec == Init /\ [][Next]_vars

----------------------------------------------------------------------------
(* Specifications over larger inputs *)

\* a loaded page whose fields the user has brought to the values f by editing
ReadyPage(v, url, f) ==
    /\ variant = v
    /\ pc = "ready"
    /\ location = url
    /\ field = f
    /\ storage = [k \in StorageKeys |->
                     IF k \in FieldSet /\ v = "gated" /\ f[k] # MarkupFields[k]
                     THEN Some(f[k]) ELSE None]
    /\ dark = FALSE
    /\ hidden = IF v = "plain" /\ f["view"] = ViewMap
                THEN [list |-> TRUE, map |-> FALSE, day |-> FALSE] ELSE MarkupHidden
    /\ lastPlan = None
    /\ dayOptions = <<>>
    /\ dayValue = None
    /\ listHTML = <<>>
    /\ mapSrc = ""
    /\ inflight = {}
    /\ alertMsg = None
    /\ uncaught = (v = "gated" /\ (f = MarkupFields \/ f["view"] = ViewMap))
    /\ clipboard = None
    /\ lastOp = Op("edit", "")
    /\ atLoad = [location |-> url, storage |-> NoStorage]
    /\ lastEdit = [id \in FieldSet |-> IF f[id] # MarkupFields[id] THEN Some(f[id]) ELSE None]
    /\ shared = None
    /\ planFrom = None
    /\ steps = 0

\* longest text typed into #home in SpecShare
MaxText == 2
\* most lines typed into #mandatory or #altAddresses in SpecParse
MaxLines == 2

ShareChars == {"a", " ", "+", "%", "&", "="}

ShareFields ==
    { [home |-> h, places |-> p, mandatory |-> m[1], altAddresses |-> m[2],
       mode |-> s[1], view |-> s[2]] :
        h \in Seqs(ShareChars, MaxText),
        p \in {<<"A", "\n", "B">>, <<"a", "&", "b", "=", "2", "%">>},
        m \in {<< <<>>, <<>> >>, << <<"1", "|", "A", ",", "B">>, <<"A", "|", "B", "#">> >>},
        s \in {<<ModeCar, ViewList>>, <<ModeWalk, ViewMap>>} }

\* the address of the page share() is clicked on: plain, or still carrying a query
ShareUrls == {Url(<<>>, <<>>), Url(QueryOf(<< <<"home", <<"b">> >> >>), <<"#", "x">>)}

InitShare ==
    \E f \in ShareFields : \E url \in ShareUrls : ReadyPage("gated", url, f)

\* a handler run outside the count of Spec
Uncounted(A) == UNCHANGED steps /\ A

NextShare ==
    \/ Uncounted(Share)
    \/ Uncounted(NavigateShared)
    \/ Uncounted(RestoreForm)

\* share(), then the shared address opened, for every value of the fields
SpecShare == InitShare /\ [][NextShare]_vars

DayParts == {<<>>, <<"1">>, <<"2">>}
PlaceParts == {<<>>, <<"A">>, <<" ", "A", ",", ",", "B", " ">>, <<"B">>}
ThirdParts == {<<>>, <<"|", "C">>}

\* the lines typed into #mandatory: a day alone, or day|places with or without a third segment
MandatoryLines ==
    DayParts \cup
    { d \o <<"|">> \o p \o t : d \in DayParts, p \in PlaceParts, t \in ThirdParts }

MandatoryTexts == { Join(ls, "\n") : ls \in Seqs(MandatoryLines, MaxLines) }

AltKeyParts == {<<>>, <<"A">>, <<"A", " ">>, <<"B">>}
AltValueParts == {<<>>, <<" ", "B">>, <<"B", "|", "C">>}

\* the lines typed into #altAddresses: a key alone, or key|value with or without a later '|'
AltLines ==
    AltKeyParts \cup { k \o <<"|">> \o v : k \in AltKeyParts, v \in AltValueParts }

AltTexts == { Join(ls, "\n") : ls \in Seqs(AltLines, MaxLines) }

InitParse ==
    \/ \E text \in MandatoryTexts :
          ReadyPage("gated", Url(<<>>, <<>>), [MarkupFields EXCEPT !.mandatory = text])
    \/ \E text \in AltTexts :
          ReadyPage("gated", Url(<<>>, <<>>), [MarkupFields EXCEPT !.altAddresses = text])

NextParse == Uncounted(PlanClick)

\* plan() on every text of #mandatory and on every text of #altAddresses
SpecParse == InitParse /\ [][NextParse]_vars

----------------------------------------------------------------------------
(* Claims *)

\* the value of the field's URL parameter when the current page started loading
UrlValue(id) == ParamsGet(ParseQuery(atLoad.location.search), KeyText[id])

\* C1: when restoreForm has run, each of the six fields holds the value of its URL
\* parameter and storage holds it too, whatever storage held before; with no URL
\* parameter it holds the stored value and storage is as it was; with neither it holds
\* its markup default and storage has no such key.
C1_Precedence ==
    (variant = "gated" /\ lastOp.op = "restoreForm") =>
        \A id \in FieldSet :
            IF UrlValue(id) # None
            THEN field[id] = UrlValue(id)[1] /\ storage[id] = UrlValue(id)
            ELSE IF atLoad.storage[id] # None
                 THEN field[id] = atLoad.storage[id][1] /\ storage[id] = atLoad.storage[id]
                 ELSE field[id] = MarkupFields[id] /\ storage[id] = None

\* restoreForm has run on a page where one field had a URL parameter and another
\* stored value, a second field only a stored value, and a third neither
C1_Witness ==
    /\ variant = "gated"
    /\ lastOp.op = "restoreForm"
    /\ \E id \in FieldSet :
          /\ UrlValue(id) # None
          /\ atLoad.storage[id] \notin {None, UrlValue(id)}
          /\ field[id] = UrlValue(id)[1]
          /\ storage[id] = UrlValue(id)
    /\ \E id \in FieldSet :
          /\ UrlValue(id) = None
          /\ atLoad.storage[id] # None
          /\ field[id] = atLoad.storage[id][1]
          /\ field[id] # MarkupFields[id]
    /\ \E id \in FieldSet : UrlValue(id) = None /\ atLoad.storage[id] = None

\* C2: once restoreForm has finished on a page that was opened with at least one of
\* the six fields as a URL parameter, the address has no query parameters and its path
\* and fragment are those the page was opened with.
C2_UrlStripped ==
    (variant = "gated" /\ pc = "ready" /\ \E id \in FieldSet : UrlValue(id) # None) =>
        /\ location.search = <<>>
        /\ location.pathname = atLoad.location.pathname
        /\ location.hash = atLoad.location.hash

\* the page was opened with the address share() last built, and restoreForm has run
LoadedShared ==
    /\ variant = "gated"
    /\ lastOp.op = "restoreForm"
    /\ shared # None
    /\ clipboard # None
    /\ atLoad.location = clipboard[1]

\* C3 as claimed: after share() and a load of the shared address, all six fields and
\* their storage keys hold the values the fields had when share() ran.
C3_RoundTripExact ==
    LoadedShared =>
        \A id \in FieldSet : field[id] = shared[1][id] /\ storage[id] = Some(shared[1][id])

\* C3 as amended: after share() and a load of the shared address, places, mandatory,
\* altAddresses, mode and view and their storage keys hold the values the fields had
\* when share() ran, and home and its storage key hold that home value trimmed.
C3_RoundTripTrimmedHome ==
    LoadedShared =>
        \A id \in FieldSet :
            LET sent == IF id = "home" THEN Trim(shared[1][id]) ELSE shared[1][id]
            IN field[id] = sent /\ storage[id] = Some(sent)

\* a shared address has been loaded whose home value had surrounding whitespace and
\* characters the query string has to escape
C3_Witness ==
    /\ LoadedShared
    /\ shared[1]["home"] # Trim(shared[1]["home"])
    /\ \E i \in 1..Len(shared[1]["home"]) : shared[1]["home"][i] \in {"+", "%", "&", "="}
    /\ field["home"] = Trim(shared[1]["home"])
    /\ field["places"] = shared[1]["places"]
    /\ "\n" \in {field["places"][i] : i \in 1..Len(field["places"])}

\* C4: the value of a field's last edit is in storage from the edit on, through plans,
\* shares, view changes, theme toggles and reloads, and on every loaded page the field
\* shows it, until a URL parameter for that field replaces it.
C4_WriteThrough ==
    variant = "gated" =>
        \A id \in FieldSet :
            lastEdit[id] # None =>
                /\ storage[id] = lastEdit[id]
                /\ (pc = "ready" => field[id] = lastEdit[id][1])

\* after an edit and a theme toggle, a page reloaded without URL parameters shows the
\* edited value, not the markup default
C4_Witness ==
    /\ variant = "gated"
    /\ lastOp.op = "restoreForm"
    /\ \A id \in FieldSet : UrlValue(id) = None
    /\ atLoad.storage["theme"] = Some(ThemeLight)
    /\ \E id \in TextIds :
          /\ lastEdit[id] # None
          /\ field[id] = lastEdit[id][1]
          /\ field[id] # MarkupFields[id]

\* C5 as claimed: a failing plan call with message M shows exactly M and leaves
\* lastPlan as it was.
C5_MessageExact ==
    [][lastOp'.op = "planFail" =>
          alertMsg' = Some(lastOp'.arg) /\ lastPlan' = lastPlan]_vars

\* C5 as amended: a failing plan call with message M shows 'Planning failed: ' followed
\* by M and leaves lastPlan as it was.
C5_MessagePrefixed ==
    [][lastOp'.op = "planFail" =>
          alertMsg' = Some("Planning failed: " \o lastOp'.arg) /\ lastPlan' = lastPlan]_vars

\* a plan call has failed with the body of a 400 response while a plan existed
C5_Witness ==
    /\ lastOp = Op("planFail", "bad address")
    /\ alertMsg = Some("Planning failed: bad address")
    /\ lastPlan # None
    /\ lastPlan[1].routes # <<>>

\* C6: on a loaded page the list region is shown iff view is list and the map region
\* is shown iff view is map.
C6_RegionVisibility ==
    pc = "ready" =>
        /\ (~hidden.list <=> field["view"] = ViewList)
        /\ (~hidden.map <=> field["view"] = ViewMap)

\* C7: with no plan, the render at load and a change of the view end without an
\* error, with the list and the map empty.
C7_NoPlanNoError ==
    (pc = "ready" /\ lastPlan = None /\ lastOp.op \in {"restoreForm", "viewChange"}) =>
        ~uncaught /\ listHTML = <<>> /\ mapSrc = ""

FirstBar(line) == IndexOf(line, "|", 1)
SecondBar(line) == IndexOf(line, "|", FirstBar(line) + 1)
BeforeFirstBar(line) == SubSeq(line, 1, FirstBar(line) - 1)
AfterFirstBar(line) == SubSeq(line, FirstBar(line) + 1, Len(line))
BetweenBars(line) ==
    IF SecondBar(line) = 0 THEN AfterFirstBar(line)
    ELSE SubSeq(line, FirstBar(line) + 1, SecondBar(line) - 1)

\* the trimmed non-empty comma-separated tokens of a places part
PlaceTokens(part) ==
    LET tokens == Split(part, ",")
    IN SelectSeq([i \in 1..Len(tokens) |-> Trim(tokens[i])], LAMBDA token : token # <<>>)

\* what one line with a day and the given places part puts into the mapping
OneLineMapping(day, part) ==
    IF day = <<>> \/ PlaceTokens(part) = <<>> THEN <<>> ELSE (day :> PlaceTokens(part))

\* #mandatory holds exactly one surviving line, and it has a '|'
OneBarLine ==
    /\ Len(Lines(field["mandatory"])) = 1
    /\ FirstBar(Lines(field["mandatory"])[1]) # 0

\* C9 as claimed: a single surviving line puts under the text before its first '|' the
\* tokens of everything after that '|'.
C9_SplitOnce ==
    OneBarLine =>
        \A req \in inflight :
            LET line == Lines(field["mandatory"])[1]
            IN req.payload.config.mandatory_by_day
                  = OneLineMapping(BeforeFirstBar(line), AfterFirstBar(line))

\* C9 as amended: a single surviving line puts under the text before its first '|' the
\* tokens of the text between its first and its second '|' (to the end of the line when
\* there is no second); what follows a second '|' is dropped.
C9_SplitAll ==
    OneBarLine =>
        \A req \in inflight :
            LET line == Lines(field["mandatory"])[1]
            IN req.payload.config.mandatory_by_day
                  = OneLineMapping(BeforeFirstBar(line), BetweenBars(line))

\* plan() has parsed a line with two '|': only the places before the second are kept
C9_Witness ==
    /\ field["mandatory"] = <<"1", "|", "A", "|", "C">>
    /\ \E req \in inflight :
          req.payload.config.mandatory_by_day = (<<"1">> :> << <<"A">> >>)

\* the tokens a line contributes under the day key
LineTokens(line, day) ==
    IF FirstBar(line) # 0 /\ BeforeFirstBar(line) = day /\ day # <<>>
    THEN PlaceTokens(BetweenBars(line)) ELSE <<>>

RECURSIVE DayTokens(_, _)
\* the tokens of the lines with the day, line after line
DayTokens(lines, day) ==
    IF lines = <<>> THEN <<>>
    ELSE LineTokens(Head(lines), day) \o DayTokens(Tail(lines), day)

\* C10: the list under each day key is the tokens of the surviving lines with that day,
\* in line order and, within a line, left to right; the keys are the days of the lines
\* that have a token.
C10_GroupedInOrder ==
    \A req \in inflight :
        LET m == req.payload.config.mandatory_by_day
            lines == Lines(field["mandatory"])
            days == {BeforeFirstBar(lines[i]) : i \in {j \in 1..Len(lines) : FirstBar(lines[j]) # 0}}
        IN /\ DOMAIN m = {day \in days : DayTokens(lines, day) # <<>>}
           /\ \A day \in DOMAIN m : m[day] = DayTokens(lines, day)

\* plan() has parsed two lines of the same day, the first with two tokens
C10_Witness ==
    /\ Len(Lines(field["mandatory"])) = 2
    /\ \E req \in inflight :
          /\ DOMAIN req.payload.config.mandatory_by_day = {<<"1">>}
          /\ req.payload.config.mandatory_by_day[<<"1">>] = << <<"A">>, <<"B">>, <<"B">> >>

\* a line of #mandatory without '|', with nothing before its first '|', or with nothing
\* after it
Malformed(line) ==
    \/ FirstBar(line) = 0
    \/ BeforeFirstBar(line) = <<>>
    \/ AfterFirstBar(line) = <<>>

WellFormedLines(lines) == SelectSeq(lines, LAMBDA line : ~Malformed(line))

\* C11: the lines without '|', with an empty places segment or with an empty day add no
\* key and no entry and raise no error: the mapping plan() sends is the one of the other
\* lines alone, each day with the tokens of its own lines.
C11_MalformedDropped ==
    \A req \in inflight :
        LET m == req.payload.config.mandatory_by_day
            good == WellFormedLines(Lines(field["mandatory"]))
            days == {BeforeFirstBar(good[i]) : i \in 1..Len(good)}
        IN /\ DOMAIN m = {day \in days : DayTokens(good, day) # <<>>}
           /\ \A day \in DOMAIN m : m[day] = DayTokens(good, day)
           /\ alertMsg = None
           /\ (lastOp.op = "planClick" => ~uncaught)

\* plan() has parsed a line with an empty day next to a line that has an entry
C11_Witness ==
    /\ lastOp.op = "planClick"
    /\ \E req \in inflight :
          LET lines == Lines(field["mandatory"])
          IN /\ Len(lines) = 2
             /\ FirstBar(lines[1]) = 1
             /\ ~Malformed(lines[2])
             /\ DOMAIN req.payload.config.mandatory_by_day = {BeforeFirstBar(lines[2])}

\* the part of a line of #altAddresses that names the original address
AltOriginal(line) == IF FirstBar(line) = 0 THEN line ELSE BeforeFirstBar(line)
\* the replacement the line gives it
AltReplacement(line) == IF FirstBar(line) = 0 THEN <<>> ELSE Trim(AfterFirstBar(line))

\* C12: each surviving line of #altAddresses with text before its first '|' registers the
\* trimmed text before that '|' with the trimmed remainder of the line, later '|' kept;
\* a line without '|' registers its text with the empty string; a line starting with '|'
\* registers nothing; of the lines with the same key the last one gives the value.
C12_AltAddresses ==
    \A req \in inflight :
        LET m == req.payload.config.alt_addresses
            lines == Lines(field["altAddresses"])
            of(key) == {i \in 1..Len(lines) :
                          AltOriginal(lines[i]) # <<>> /\ Trim(AltOriginal(lines[i])) = key}
        IN /\ DOMAIN m = {Trim(AltOriginal(lines[i])) :
                             i \in {j \in 1..Len(lines) : AltOriginal(lines[j]) # <<>>}}
           /\ \A key \in DOMAIN m :
                 \E i \in of(key) :
                    /\ \A j \in of(key) : j <= i
                    /\ m[key] = AltReplacement(lines[i])

\* plan() has parsed two lines with the key A; the value is the one of the second line,
\* everything after its first '|'
C12_Witness ==
    /\ Lines(field["altAddresses"]) = << <<"A", "|", " ", "B">>, <<"A", " ", "|", "B", "|", "C">> >>
    /\ \E req \in inflight :
          req.payload.config.alt_addresses = (<<"A">> :> <<"B", "|", "C">>)

\* a response of the endpoint has just been processed by plan()
PlanProcessed == lastOp.op \in {"planOk", "planThrew"}

\* the label of a route read off its day: 'Day N' with a day number, 'Route' without
RouteLabel(route) == IF route.day # None THEN "Day " \o ToString(route.day[1]) ELSE "Route"

\* C13: when a successful response has just been processed, lastPlan is that response,
\* #day holds one option per route with value i and label 'Day N' or 'Route', option 0
\* is selected (when there is an option), the region of the current view shows the new
\* plan, and the other region holds nothing that is not of the new plan.
C13_FreshPlan ==
    PlanProcessed =>
        /\ planFrom # None
        /\ lastPlan = Some(planFrom[1].resp)
        /\ LET routes == planFrom[1].resp.routes
           IN /\ Len(dayOptions) = Len(routes)
              /\ \A i \in 1..Len(routes) :
                    /\ dayOptions[i].value = i - 1
                    /\ dayOptions[i].label = RouteLabel(routes[i])
              /\ dayOptions # <<>> => dayValue = Some(0)
              /\ IF field["view"] = ViewList
                 THEN listHTML = RenderList(planFrom[1].resp)
                 ELSE listHTML \in {<<>>, RenderList(planFrom[1].resp)}
              /\ IF field["view"] = ViewMap
                 THEN routes # <<>> /\ mapSrc = routes[1].map_path
                 ELSE mapSrc = "" \/ \E i \in 1..Len(routes) : mapSrc = routes[i].map_path

\* C14: a step of plan(), be it the click, a response processed or a failure handled,
\* leaves the values of the six form fields and every key of storage as they were.
C14_PlanKeepsInputs ==
    [][lastOp'.op \in {"planClick", "planOk", "planThrew", "planFail"}
          => field' = field /\ storage' = storage]_vars

\* a failure has been handled on a page whose #home was edited: the edit is still there
C14_Witness ==
    /\ variant = "gated"
    /\ lastOp.op = "planFail"
    /\ field["home"] = <<" ", "a">>
    /\ storage["home"] = Some(<<" ", "a">>)
    /\ lastEdit["home"] = Some(<<" ", "a">>)

\* C15: once the script of lines 1-204 has run, the body carries the class 'dark' exactly
\* when the stored theme is 'dark'; a click on the heading flips the class and stores
\* 'dark' or 'light' to match.
C15_ThemeConsistent ==
    [][/\ (variant = "gated" /\ pc' = "ready")
            => (dark' <=> storage'["theme"] = Some(ThemeDark))
       /\ lastOp'.op = "theme"
            => /\ dark' = ~dark
               /\ storage'["theme"] = Some(IF dark' THEN ThemeDark ELSE ThemeLight)]_vars

\* a page reloaded after the theme was toggled from dark to light comes up light
C15_Witness ==
    /\ variant = "gated"
    /\ lastOp.op = "restoreForm"
    /\ atLoad.storage["theme"] = Some(ThemeLight)
    /\ storage["theme"] = Some(ThemeLight)
    /\ ~dark

\* the handler that ran last is one of those that render: a response processed, a change
\* of #view, a change of #day
RenderTrigger == lastOp.op \in {"planOk", "planThrew", "viewChange", "dayChange"}

\* C16: in map view with a plan present, after a handler that renders, #mapFrame shows
\* the map of route idx of lastPlan, idx being the value of #day when #day is shown and
\* 0 when it is hidden, and idx is an index of lastPlan.routes.
C16_MapShowsSelected ==
    (RenderTrigger /\ field["view"] = ViewMap /\ lastPlan # None) =>
        LET idx == IF hidden.day THEN Some(0) ELSE dayValue
            routes == lastPlan[1].routes
        IN /\ idx # None
           /\ idx[1] \in 0..(Len(routes) - 1)
           /\ mapSrc = routes[idx[1] + 1].map_path

\* C17: in list view with a plan present, after a handler that renders, #list holds one
\* block per route of lastPlan and nothing else, in route order: the heading 'Day N' or
\* 'Route', the places of the route in order, the distance as the nearest tenth of a
\* kilometre (12345 m gives 12.3 km) and the minutes; so a second render, of the same
\* plan or of another, leaves what a single render of lastPlan gives.
C17_ListBlocks ==
    (RenderTrigger /\ field["view"] = ViewList /\ lastPlan # None) =>
        LET routes == lastPlan[1].routes
        IN /\ Len(listHTML) = Len(routes)
           /\ \A i \in 1..Len(routes) :
                 /\ listHTML[i].heading = RouteLabel(routes[i])
                 /\ listHTML[i].places = routes[i].places
                 /\ 100 * listHTML[i].kmTenths - 50 < routes[i].distance_m
                 /\ routes[i].distance_m < 100 * listHTML[i].kmTenths + 50
                 /\ routes[i].distance_m = 12345 => listHTML[i].kmTenths = 123
                 /\ listHTML[i].minutes = routes[i].time_minutes

\* the second of two responses has been rendered in list view over the first: a route
\* of day 1 and 12345 m, then a route without day of 12381 m
C17_Witness ==
    /\ field["view"] = ViewList
    /\ lastEdit["view"] = None
    /\ lastOp.op = "planOk"
    /\ inflight = {}
    /\ alertMsg = None
    /\ planFrom # None
    /\ planFrom[1].id = 2
    /\ Len(listHTML) = 2
    /\ listHTML[1].heading = "Day 1" /\ listHTML[1].kmTenths = 123
    /\ listHTML[2].heading = "Route" /\ listHTML[2].kmTenths = 124
    /\ listHTML[2].places = <<"Louvre", "Orsay">>

\* C18: the click on Plan leaves #list and #mapFrame empty, and when the next thing to
\* happen is the failure of a call, they are still empty after it while lastPlan is
\* what it was.
C18_ClearedNotRestored ==
    [][/\ lastOp'.op = "planClick" => (listHTML' = <<>> /\ mapSrc' = "")
       /\ (lastOp.op = "planClick" /\ lastOp'.op = "planFail")
            => (listHTML' = <<>> /\ mapSrc' = "" /\ lastPlan' = lastPlan)]_vars

\* a failure has been handled on a page that stayed in list view and still holds a plan
\* with routes: the list that plan was rendered to is empty
C18_Witness ==
    /\ lastOp.op = "planFail"
    /\ field["view"] = ViewList
    /\ lastEdit["view"] = None
    /\ lastPlan # None
    /\ lastPlan[1].routes # <<>>
    /\ listHTML = <<>>
    /\ mapSrc = ""

\* C19: a step of plan() that processes a successful response puts that response in
\* lastPlan and raises no alert; a step of plan() that raises an alert leaves lastPlan
\* as it was.
C19_AlertOnlyOnFailure ==
    [][/\ lastOp'.op \in {"planOk", "planThrew"}
            => (lastPlan' = Some(planFrom'[1].resp) /\ alertMsg' = alertMsg)
       /\ (lastOp'.op \in {"planOk", "planThrew", "planFail"} /\ alertMsg' # alertMsg)
            => lastPlan' = lastPlan]_vars

\* C20: whatever calls of plan() overlapped and in whatever order their responses came,
\* lastPlan is, whole, the successful response that was processed last (absent when
\* none was), one of the endpoint's responses and never a blend of two, and #day holds
\* the options of that response.
C20_LastProcessedWins ==
    IF planFrom = None THEN lastPlan = None /\ dayOptions = <<>>
    ELSE /\ lastPlan = Some(planFrom[1].resp)
         /\ lastPlan[1] \in Responses
         /\ Len(dayOptions) = Len(lastPlan[1].routes)
         /\ \A i \in 1..Len(dayOptions) :
               dayOptions[i] = [value |-> i - 1, label |-> RouteLabel(lastPlan[1].routes[i])]

\* both of two overlapping calls have completed, the one submitted first processed last:
\* its response has replaced the plan of the later call
C20_Witness ==
    /\ inflight = {}
    /\ lastOp.op = "planOk"
    /\ planFrom # None
    /\ planFrom[1].id = 1
    /\ planFrom[1].late
    /\ lastPlan = Some(planFrom[1].resp)
    /\ Len(dayOptions) = 2

====
